---- MODULE Spec2Model ----
(***************************************************************************)
(* A model of the structural beam components of src/spatialbeam.py:        *)
(* SpatialBeamFEM (assembly of the augmented stiffness system, forward     *)
(* solve, residual, linearize, solve_linear), SpatialBeamDisp, the         *)
(* declared inputs/outputs and Jacobian keys of every component, and       *)
(* SpatialBeamFailureKS.                                                   *)
(*                                                                         *)
(* Numbers.  The code computes in IEEE complex doubles.  The model         *)
(* computes in exact rationals <<num, den>> (den > 0, lowest terms) plus   *)
(* one non-finite value NaN = <<0, 0>> that stands for every nan/inf a     *)
(* division by zero produces and that propagates through + - * / sqrt as   *)
(* in IEEE arithmetic (0 * nan = nan).  The imaginary parts, which the     *)
(* code uses only as the carrier of complex-step perturbations, are not    *)
(* modelled.                                                               *)
(***************************************************************************)
EXTENDS Integers, Sequences, FiniteSets, TLC

\* ------------------------------------------------------------- numbers

NaN == <<0, 0>>
Zero == <<0, 1>>
One == <<1, 1>>

R(k) == <<k, 1>>

IsNaN(a) == a[2] = 0

IsFinite(a) == a[2] # 0

Abs(k) == IF k < 0 THEN -k ELSE k

RECURSIVE GCD(_, _)
GCD(a, b) == IF b = 0 THEN a ELSE GCD(b, a % b)

\* num/den in lowest terms with a positive denominator (den # 0).
Frac(num, den) ==
  IF num = 0 THEN Zero
  ELSE LET g == GCD(Abs(num), Abs(den))
           s == IF den < 0 THEN -1 ELSE 1
       IN <<s * (num \div g), s * (den \div g)>>

RNeg(a) == IF IsNaN(a) THEN NaN ELSE <<-a[1], a[2]>>

RAdd(a, b) ==
  IF IsNaN(a) \/ IsNaN(b) THEN NaN
  ELSE IF a[1] = 0 THEN b
  ELSE IF b[1] = 0 THEN a
  ELSE IF a[2] = 1 /\ b[2] = 1 THEN <<a[1] + b[1], 1>>
  ELSE LET g == GCD(a[2], b[2])
       IN Frac(a[1] * (b[2] \div g) + b[1] * (a[2] \div g), (a[2] \div g) * b[2])

RSub(a, b) == RAdd(a, RNeg(b))

RMul(a, b) ==
  IF IsNaN(a) \/ IsNaN(b) THEN NaN
  ELSE IF a[1] = 0 \/ b[1] = 0 THEN Zero
  ELSE IF a[2] = 1 /\ b[2] = 1 THEN <<a[1] * b[1], 1>>
  ELSE LET g1 == GCD(Abs(a[1]), b[2])
           g2 == GCD(Abs(b[1]), a[2])
       IN <<(a[1] \div g1) * (b[1] \div g2), (a[2] \div g2) * (b[2] \div g1)>>

\* IEEE division: x / 0 is non-finite for every x (0/0 = nan, x/0 = inf).
RDiv(a, b) ==
  IF IsNaN(a) \/ IsNaN(b) \/ b[1] = 0 THEN NaN
  ELSE RMul(a, IF b[1] > 0 THEN <<b[2], b[1]>> ELSE <<-b[2], -b[1]>>)

\* a == b as the code's arithmetic compares: nan equals nothing.
REq(a, b) == IsFinite(a) /\ IsFinite(b) /\ a = b

\* Integer square root (floor).
ISqrt(k) == CHOOSE r \in 0..k : r * r <= k /\ k < (r + 1) * (r + 1)

\* numpy.sqrt on the values the model's inputs produce: squares of
\* rationals (every input geometry has rational element lengths).
RSqrt(a) ==
  IF IsNaN(a) \/ a[1] < 0 THEN NaN
  ELSE <<ISqrt(a[1]), ISqrt(a[2])>>

\* ------------------------------------------------------ vectors, matrices
\* A vector is a function on 0..len-1, a matrix a function on 0..rows-1 of
\* row vectors, indexed from 0 as the numpy arrays are.


\* f itself, as an explicit table of its values: they are computed once,
\* here, rather than at every later application of f.
Eager(f) == f @@ <<>>

\* F(a), F(a, b), F(a, b, c) with the arguments computed once, before F is
\* entered (call by value).
Strict(a, F(_)) == CHOOSE y \in {F(u) : u \in {a}} : TRUE

Strict2(a, b, F(_, _)) == CHOOSE y \in {F(u, v) : u \in {a}, v \in {b}} : TRUE

Strict3(a, b, c, F(_, _, _)) ==
  CHOOSE y \in {F(u, v, w) : u \in {a}, v \in {b}, w \in {c}} : TRUE

VLen(v) == Cardinality(DOMAIN v)

VZero(len) == Eager([i \in 0..(len - 1) |-> Zero])

MZero(rows, cols) == Eager([i \in 0..(rows - 1) |-> VZero(cols)])

RECURSIVE SumRange(_, _, _)
\* f[lo] + ... + f[hi] of a table f, summed pairwise (the order changes
\* neither an exact sum nor whether a sum with a non-finite term is
\* non-finite).
SumRange(f, lo, hi) ==
  IF lo = hi THEN f[lo]
  ELSE RAdd(SumRange(f, lo, (lo + hi) \div 2), SumRange(f, (lo + hi) \div 2 + 1, hi))

\* v[0] + ... + v[len-1]
VSum(v) == Strict(v, LAMBDA f : SumRange(f, 0, VLen(f) - 1))

\* a.dot(b) for a of shape (r, k) and b of shape (k, c).
Dot(a, b, r, k, c) ==
  Strict2(a, b, LAMBDA u, v :
    Eager([i \in 0..(r - 1) |-> Eager([j \in 0..(c - 1) |->
       VSum(Eager([l \in 0..(k - 1) |-> RMul(u[i][l], v[l][j])]))])]))

\* a.T for a of shape (r, c).
Transpose(a, r, c) ==
  Strict(a, LAMBDA u :
    Eager([j \in 0..(c - 1) |-> Eager([i \in 0..(r - 1) |-> u[i][j]])]))

\* a.dot(v) for a of shape (r, c) and a vector v of length c.
MatVec(a, v, r, c) ==
  Strict2(a, v, LAMBDA u, w :
    Eager([i \in 0..(r - 1) |->
       VSum(Eager([l \in 0..(c - 1) |-> RMul(u[i][l], w[l])]))]))

MAdd(a, b, r, c) ==
  Strict2(a, b, LAMBDA u, v :
    Eager([i \in 0..(r - 1) |-> Eager([j \in 0..(c - 1) |-> RAdd(u[i][j], v[i][j])])]))

MScale(s, a, r, c) ==
  Strict2(s, a, LAMBDA t, u :
    Eager([i \in 0..(r - 1) |-> Eager([j \in 0..(c - 1) |-> RMul(t, u[i][j])])]))

\* b - a of two 3-vectors.
Minus(b, a) == Strict2(a, b, LAMBDA u, v : Eager([k \in 0..2 |-> RSub(v[k], u[k])]))

\* src/spatialbeam.py norm(vec) and unit(vec), on 3-vectors.
norm(vec) ==
  Strict(vec, LAMBDA v : RSqrt(VSum(Eager([i \in 0..2 |-> RMul(v[i], v[i])]))))

unit(vec) ==
  Strict(vec, LAMBDA v :
    Strict(norm(v), LAMBDA nv : Eager([i \in 0..2 |-> RDiv(v[i], nv)])))

\* numpy.cross of two 3-vectors.
Cross(a, b) ==
  Strict2(a, b, LAMBDA u, v :
    Eager([i \in 0..2 |->
       CASE i = 0 -> RSub(RMul(u[1], v[2]), RMul(u[2], v[1]))
         [] i = 1 -> RSub(RMul(u[2], v[0]), RMul(u[0], v[2]))
         [] i = 2 -> RSub(RMul(u[0], v[1]), RMul(u[1], v[0]))]))

\* ------------------------------------------------ SpatialBeamFEM.__init__

\* The material constants handed to the constructor (self.E, self.G).
E == R(2)

G == R(1)

\* fem_origin = 0.35, the blend fraction of the two mesh curves.
fem_origin == <<7, 20>>

\* self.x_gl = (1, 0, 0)
x_gl == Eager([i \in 0..2 |-> IF i = 0 THEN One ELSE Zero])

FromRows(rows) ==
  Eager([i \in 0..(Len(rows) - 1) |-> Eager([j \in 0..(Len(rows[i + 1]) - 1) |-> R(rows[i + 1][j + 1])])])

const2 == FromRows(<<
  <<1, -1>>,
  <<-1, 1>> >>)

const_y == FromRows(<<
  <<12, -6, -12, -6>>,
  <<-6, 4, 6, 2>>,
  <<-12, 6, 12, 6>>,
  <<-6, 2, 6, 4>> >>)

const_z == FromRows(<<
  <<12, 6, -12, 6>>,
  <<6, 4, -6, 2>>,
  <<-12, -6, 12, -6>>,
  <<6, 2, -6, 4>> >>)

\* A selection matrix of shape (Len(cols), 12): row r has its 1 in column cols[r+1].
Select(cols) ==
  Eager([i \in 0..(Len(cols) - 1) |-> Eager([j \in 0..11 |-> IF j = cols[i + 1] THEN One ELSE Zero])])

S_a == Select(<<0, 6>>)

S_t == Select(<<3, 9>>)

S_y == Select(<<2, 4, 8, 10>>)

S_z == Select(<<1, 5, 7, 11>>)

\* elem_IDs[ielem] = (ielem, ielem + 1)
elem_IDs(ielem) == <<ielem, ielem + 1>>

\* -------------------------------------- SpatialBeamFEM._assemble_system

\* nodes = (1-w) * mesh[0] + w * mesh[-1]; mesh has two curves, so mesh[-1]
\* is mesh[1].  A mesh is <<curve0, curve1>>, each a function node -> 3-vector.
Nodes(mesh, nn) ==
  Strict(mesh, LAMBDA m :
    Eager([i \in 0..(nn - 1) |-> Eager([k \in 0..2 |->
       RAdd(RMul(RSub(One, fem_origin), m[1][i][k]), RMul(fem_origin, m[2][i][k]))])]))

\* The local frame T (3 x 3) of an element from P0 to P1.
Frame(P0, P1) ==
  Strict(unit(Minus(P1, P0)), LAMBDA x_loc :
    Strict(unit(Cross(x_loc, x_gl)), LAMBDA y_loc :
      Strict(unit(Cross(x_loc, y_loc)), LAMBDA z_loc :
        Eager([i \in 0..2 |-> CASE i = 0 -> x_loc [] i = 1 -> y_loc [] i = 2 -> z_loc]))))

\* T_elem: the four diagonal 3 x 3 blocks are T, the rest keeps the zeros
\* of the constructor (nothing else ever writes T_elem).
TElem(T) ==
  Strict(T, LAMBDA t :
    Eager([i \in 0..11 |-> Eager([j \in 0..11 |->
       IF i \div 3 = j \div 3 THEN t[i % 3][j % 3] ELSE Zero])]))

\* M[1, :] *= L; M[3, :] *= L; M[:, 1] *= L; M[:, 3] *= L
LengthScale(M, L) ==
  Strict2(M, L, LAMBDA m, len :
    Strict(Eager([i \in 0..3 |-> Eager([j \in 0..3 |->
              IF i \in {1, 3} THEN RMul(m[i][j], len) ELSE m[i][j]])]),
           LAMBDA rowsDone :
      Eager([i \in 0..3 |-> Eager([j \in 0..3 |->
         IF j \in {1, 3} THEN RMul(rowsDone[i][j], len) ELSE rowsDone[i][j]])])))

\* S.T.dot(M).dot(S) for S of shape (k, 12) and M of shape (k, k).
Sandwich(S, M, k) == Dot(Dot(Transpose(S, k, 12), M, 12, k, k), S, 12, k, 12)

\* K_elem of one element of length L: zeroed, then the four sub-blocks added.
KElem(L, Ae, Iye, Ize, Je) ==
  Strict(L, LAMBDA len :
    LET EA_L == RDiv(RMul(E, Ae), len)
        GJ_L == RDiv(RMul(G, Je), len)
        L3 == RMul(RMul(len, len), len)
        EIy_L3 == RDiv(RMul(E, Iye), L3)
        EIz_L3 == RDiv(RMul(E, Ize), L3)
        M_a == MScale(EA_L, const2, 2, 2)
        M_t == MScale(GJ_L, const2, 2, 2)
        M_y == LengthScale(MScale(EIy_L3, const_y, 4, 4), len)
        M_z == LengthScale(MScale(EIz_L3, const_z, 4, 4), len)
    IN MAdd(MAdd(MAdd(MAdd(MZero(12, 12),
                           Sandwich(S_a, M_a, 2), 12, 12),
                      Sandwich(S_t, M_t, 2), 12, 12),
                 Sandwich(S_y, M_y, 4), 12, 12),
            Sandwich(S_z, M_z, 4), 12, 12))

\* res = T_elem.T.dot(K_elem).dot(T_elem) of the element from P0 to P1.
ElemRes(P0, P1, Ae, Iye, Ize, Je) ==
  Strict2(P0, P1, LAMBDA p0, p1 :
    Strict2(TElem(Frame(p0, p1)), KElem(norm(Minus(p1, p0)), Ae, Iye, Ize, Je),
            LAMBDA T_elem, K_elem :
      Dot(Dot(Transpose(T_elem, 12, 12), K_elem, 12, 12, 12), T_elem, 12, 12, 12)))

\* An assembly that starts from whatever the matrix buffer holds.
KeepMtx(buf) == buf

\* self.mtx[:] = 0.  /  self.rhs[:] = 0.0
ZeroMtx(buf) ==
  Strict(buf, LAMBDA m : Eager([i \in DOMAIN m |-> Eager([j \in DOMAIN m[i] |-> Zero])]))

ZeroRhs(buf) == Strict(buf, LAMBDA r : Eager([i \in DOMAIN r |-> Zero]))

\* res of element ielem, from the params P of a beam of nn nodes.
ElemBlock(ielem, nn, P) ==
  Strict(P, LAMBDA prm :
    Strict(Nodes(prm.mesh, nn), LAMBDA nodes :
      ElemRes(nodes[elem_IDs(ielem)[1]], nodes[elem_IDs(ielem)[2]],
              prm.A[ielem], prm.Iy[ielem], prm.Iz[ielem], prm.J[ielem])))

\* A scatter that assigns the four quadrants instead of adding them.
ScatterAssign(mt, ielem, res) ==
  LET in0 == elem_IDs(ielem)[1]
      in1 == elem_IDs(ielem)[2]
      Quad(node) == IF node = in0 THEN 0 ELSE 6
  IN Strict2(mt, res, LAMBDA m, r :
       Eager([i \in DOMAIN m |-> Eager([j \in DOMAIN m[i] |->
          IF (i \div 6) \in {in0, in1} /\ (j \div 6) \in {in0, in1}
          THEN r[Quad(i \div 6) + (i % 6)][Quad(j \div 6) + (j % 6)]
          ELSE m[i][j]])]))

\* The four += of one element: the 6 x 6 quadrants of res go to the rows and
\* columns of the element's two nodes.
Scatter(mt, ielem, res) ==
  LET in0 == elem_IDs(ielem)[1]
      in1 == elem_IDs(ielem)[2]
      Quad(node) == IF node = in0 THEN 0 ELSE 6
  IN Strict2(mt, res, LAMBDA m, r :
       Eager([i \in DOMAIN m |-> Eager([j \in DOMAIN m[i] |->
          IF (i \div 6) \in {in0, in1} /\ (j \div 6) \in {in0, in1}
          THEN RAdd(m[i][j], r[Quad(i \div 6) + (i % 6)][Quad(j \div 6) + (j % 6)])
          ELSE m[i][j]])]))

\* The element loop, elements ielem .. num_elems-1 still to do.
RECURSIVE ElemLoop(_, _, _, _)
ElemLoop(mt, ielem, nn, P) ==
  IF ielem >= nn - 1 THEN mt
  ELSE Strict2(mt, P, LAMBDA m, prm :
         Strict(Nodes(prm.mesh, nn), LAMBDA nodes :
           ElemLoop(Scatter(m, ielem,
                            ElemRes(nodes[elem_IDs(ielem)[1]], nodes[elem_IDs(ielem)[2]],
                                    prm.A[ielem], prm.Iy[ielem], prm.Iz[ielem], prm.J[ielem])),
                    ielem + 1, nn, prm)))

\* A constraint loop that writes the rows below the stiffness block only.
ConstrainRowsOnly(mt, nn, cons) ==
  Strict(mt, LAMBDA m :
    Eager([i \in DOMAIN m |-> Eager([j \in DOMAIN m[i] |->
       IF \E ind \in 0..(Len(cons) - 1), k \in 0..5 :
            i = 6 * nn + 6 * ind + k /\ j = 6 * cons[ind + 1] + k
       THEN One
       ELSE m[i][j]])]))

\* The constraint loop: a 1 in row 6n+6ind+k, column 6cons[ind]+k, and in the
\* mirrored place.  cons is a sequence, cons[ind + 1] the code's cons[ind].
Constrain(mt, nn, cons) ==
  Strict(mt, LAMBDA m :
    Eager([i \in DOMAIN m |-> Eager([j \in DOMAIN m[i] |->
       IF \E ind \in 0..(Len(cons) - 1), k \in 0..5 :
            \/ i = 6 * nn + 6 * ind + k /\ j = 6 * cons[ind + 1] + k
            \/ i = 6 * cons[ind + 1] + k /\ j = 6 * nn + 6 * ind + k
       THEN One
       ELSE m[i][j]])]))

\* The matrix buffer after _assemble_system, from the buffer before it.
AssembleMtx(buf, nn, cons, P) == Constrain(ElemLoop(ZeroMtx(buf), 0, nn, P), nn, cons)

\* self.rhs[:6*num_nodes] = params['loads'].reshape((6*num_nodes))
LoadRows(rv, nn, loads) ==
  Strict2(rv, loads, LAMBDA r, l :
    Eager([i \in DOMAIN r |-> IF i < 6 * nn THEN l[i \div 6][i % 6] ELSE r[i]]))

\* The load vector buffer after _assemble_system, from the buffer before it.
AssembleRhs(buf, nn, P) == LoadRows(ZeroRhs(buf), nn, P.loads)

\* ------------------------------------------------------------ linear solve
\* numpy.linalg.solve (LAPACK gesv) and scipy's lu_factor / lu_solve (getrf,
\* getrs): LU elimination with row pivoting.  The elimination works on the
\* augmented matrix a (N rows, N+1 columns).  gesv pivots on the entry of
\* largest magnitude; in exact arithmetic every non-zero pivot leads to the
\* same solution and to the same verdict on singularity, and the model takes
\* the first non-zero entry of the column.

Singular == [ok |-> FALSE, a |-> <<>>]

\* One elimination step on column k of the table a; Singular when the
\* column has no pivot (every entry from row k down is exactly zero).
PivotStep(a, k, N) ==
  IF \A i \in k..(N - 1) : a[i][k][1] = 0 THEN Singular
  ELSE Strict(CHOOSE i \in k..(N - 1) :
                 a[i][k][1] # 0 /\ \A h \in k..(i - 1) : a[h][k][1] = 0,
              LAMBDA p :
         Strict(Eager([j \in 0..N |-> RDiv(a[p][j], a[p][k])]), LAMBDA prow :
           [ok |-> TRUE,
            a |-> Eager([i \in 0..(N - 1) |->
                    IF i = k THEN prow
                    ELSE Strict(IF i = p THEN a[k] ELSE a[i], LAMBDA row :
                           IF row[k][1] = 0 THEN row
                           ELSE Eager([j \in 0..N |->
                                  RSub(row[j], RMul(row[k], prow[j]))]))])]))

RECURSIVE Eliminate(_, _, _)
\* Columns k .. N-1 of the table a still to eliminate.
Eliminate(a, k, N) ==
  IF k = N THEN [ok |-> TRUE, a |-> a]
  ELSE Strict(PivotStep(a, k, N), LAMBDA step :
         IF step.ok THEN Eliminate(step.a, k + 1, N) ELSE Singular)

HasNaN(m, b) ==
  \/ \E i \in DOMAIN b : IsNaN(b[i])
  \/ \E i \in DOMAIN m : \E j \in DOMAIN m[i] : IsNaN(m[i][j])

\* The exact solution x of m x = b, as [ok |-> TRUE, x |-> x]; ok is FALSE
\* when m is singular.  m and b are finite.
Solve(mt, bv) ==
  Strict2(mt, bv, LAMBDA m, b :
    Strict(Eager([i \in DOMAIN b |-> Eager([j \in 0..VLen(b) |->
              IF j = VLen(b) THEN b[i] ELSE m[i][j]])]), LAMBDA aug :
      Strict(Eliminate(aug, 0, VLen(b)), LAMBDA done :
        IF done.ok THEN [ok |-> TRUE, x |-> Eager([i \in DOMAIN b |-> done.a[i][VLen(b)]])]
        ELSE [ok |-> FALSE, x |-> <<>>])))

\* ------------------------------------------------- instances and inputs

\* The largest number of nodes n of a beam and the longest run of calls
\* made on one instance.
MaxNodes == 3

MaxCalls == 3

\* The instances: the constructor arguments (n, cons) and the inputs
\* <<geometry, loads>> the instance is called with.  A two-node beam clamped
\* at node 0, a two-node beam without any constraint, and longer beams
\* clamped at nodes 1 and 0.
Configs ==
  {[n |-> 2, cons |-> <<0>>,
    inputs |-> {<<"straight", "loaded">>, <<"oblique", "unloaded">>,
                <<"parallel", "unloaded">>}],
   [n |-> 2, cons |-> <<>>,
    inputs |-> {<<"straight", "loaded">>, <<"collapsed", "loaded">>}]}
    \cup {[n |-> k, cons |-> <<1, 0>>, inputs |-> {<<"oblique", "loaded">>}] :
            k \in 3..MaxNodes}

\* Element directions: along y, oblique in the y-z plane, along the global
\* reference axis x_gl, and no extent at all (both nodes coincide).
Direction(g) ==
  CASE g = "straight" -> Eager([k \in 0..2 |-> IF k = 1 THEN One ELSE Zero])
    [] g = "oblique" -> Eager([k \in 0..2 |->
                           CASE k = 0 -> Zero [] k = 1 -> <<3, 5>> [] k = 2 -> <<4, 5>>])
    [] g = "parallel" -> Eager([k \in 0..2 |-> IF k = 0 THEN One ELSE Zero])
    [] g = "collapsed" -> Eager([k \in 0..2 |-> Zero])

\* A mesh (leading and trailing curve) whose blend at fem_origin puts node i
\* at i * Direction(g).
MeshOf(nn, g) ==
  LET node(i) == Eager([k \in 0..2 |-> RMul(R(i), Direction(g)[k])])
  IN << Eager([i \in 0..(nn - 1) |-> Eager([k \in 0..2 |->
          IF k = 0 THEN RSub(node(i)[k], R(7)) ELSE node(i)[k]])]),
        Eager([i \in 0..(nn - 1) |-> Eager([k \in 0..2 |->
          IF k = 0 THEN RAdd(node(i)[k], R(13)) ELSE node(i)[k]])]) >>

\* params['loads']: no load, or forces and moments on every node.
LoadsOf(nn, l) ==
  Eager([i \in 0..(nn - 1) |-> Eager([k \in 0..5 |->
     IF l = "loaded" THEN R(k - 2) ELSE Zero])])

\* The params of one call, named by the pair p = <<geometry, loads>>.
Params(nn, p) ==
  [mesh |-> MeshOf(nn, p[1]),
   A |-> Eager([e \in 0..(nn - 2) |-> R(2)]),
   Iy |-> Eager([e \in 0..(nn - 2) |-> R(1)]),
   Iz |-> Eager([e \in 0..(nn - 2) |-> R(3)]),
   J |-> Eager([e \in 0..(nn - 2) |-> R(2)]),
   loads |-> LoadsOf(nn, p[2])]

\* The variables of interest of the framework: the default one and one more.
Vois == {"None", "voi1"}

\* --------------------------------------------------------------- state
\* n, cons      constructor arguments of SpatialBeamFEM / SpatialBeamDisp
\* Inputs       the inputs this instance is called with
\* mtx, rhs     self.mtx, self.rhs
\* lup          self.lup: [set |-> FALSE] while the attribute does not exist,
\*              else [set |-> TRUE, of |-> the matrix lu_factor was given]
\* disp_aug     unknowns['disp_aug'];  resids: resids['disp_aug']
\* dumat, drmat self.dumat / self.drmat of solve_linear: for each variable of
\*              interest the vector (.vec) of the unknowns / the residuals
\* disp         unknowns['disp'] of SpatialBeamDisp
\* asm          history: the inputs p of the most recent assembly, what a
\*              fresh instance holds after assembling p once, and how many
\*              factorizations were computed since p last changed
\* call         history: the most recent call and how it ended
\* calls        number of calls made
\* part         the most recent call of one of the other components (they
\*              keep nothing between calls): its arguments and what it returned
VARIABLES n, cons, Inputs, mtx, rhs, lup, disp_aug, resids, dumat, drmat, disp,
          asm, call, calls, part

vars == <<n, cons, Inputs, mtx, rhs, lup, disp_aug, resids, dumat, drmat, disp,
          asm, call, calls, part>>

NoCall == [comp |-> "none", op |-> "none"]

size == 6 * n + 6 * Len(cons)

NaNVec(len) == Eager([i \in 0..(len - 1) |-> NaN])

Init ==
  /\ \E cfg \in Configs : n = cfg.n /\ cons = cfg.cons /\ Inputs = cfg.inputs
  /\ mtx = MZero(size, size)
  /\ rhs = VZero(size)
  /\ lup = [set |-> FALSE]
  /\ disp_aug = VZero(size)
  /\ resids = VZero(size)
  /\ dumat = Eager([voi \in Vois |-> VZero(size)])
  /\ drmat = Eager([voi \in Vois |-> VZero(size)])
  /\ disp = Eager([i \in 0..(n - 1) |-> VZero(6)])
  /\ asm = [p |-> <<>>, nfact |-> 0, mtx |-> <<>>, rhs |-> <<>>]
  /\ call = [op |-> "init", err |-> "none"]
  /\ calls = 0
  /\ part = NoCall

MHasNaN(m) == \E i \in DOMAIN m : \E j \in DOMAIN m[i] : IsNaN(m[i][j])

\* _assemble_system(params) on this instance, and the history of it;
\* factorizations is the number of LU factorizations the calling method
\* computes from the assembled matrix.
Assemble(p, factorizations) ==
  /\ mtx' = AssembleMtx(mtx, n, cons, Params(n, p))
  /\ rhs' = AssembleRhs(rhs, n, Params(n, p))
  /\ asm' = [p |-> p,
             nfact |-> IF asm.p = p THEN asm.nfact + factorizations
                       ELSE factorizations,
             mtx |-> AssembleMtx(MZero(size, size), n, cons, Params(n, p)),
             rhs |-> AssembleRhs(VZero(size), n, Params(n, p))]

\* The keys of the Jacobian SpatialBeamFEM.linearize returns: the
\* complex-step part for fd_params, and the two closed-form blocks.
FEMJacobian ==
  {<<"disp_aug", wrt>> : wrt \in {"A", "Iy", "Iz", "J", "mesh"}}
    \cup {<<"disp_aug", "disp_aug">>, <<"disp_aug", "loads">>}

\* SpatialBeamFEM.solve_nonlinear.  numpy.linalg.solve factorizes the matrix
\* itself and keeps nothing.  LAPACK reports a singular matrix only when a
\* pivot is exactly zero in floating point: for a matrix that is singular in
\* exact arithmetic, rounding decides between LinAlgError (nothing is
\* assigned) and a result without meaning, which the model writes as NaN.
\* Non-finite entries of the matrix propagate to the result.
solve_nonlinear(p) ==
  /\ calls < MaxCalls
  /\ Assemble(p, 1)
  /\ IF HasNaN(mtx', rhs')
     THEN /\ disp_aug' = NaNVec(size)
          /\ call' = [op |-> "solve_nonlinear", err |-> "none"]
     ELSE \E sol \in {Solve(mtx', rhs')} :
             IF sol.ok
             THEN /\ disp_aug' = sol.x
                  /\ call' = [op |-> "solve_nonlinear", err |-> "none"]
             ELSE \/ /\ disp_aug' = disp_aug
                     /\ call' = [op |-> "solve_nonlinear", err |-> "LinAlgError"]
                  \/ /\ disp_aug' = NaNVec(size)
                     /\ call' = [op |-> "solve_nonlinear", err |-> "none"]
  /\ calls' = calls + 1
  /\ UNCHANGED <<part, n, cons, Inputs, lup, resids, dumat, drmat, disp>>

\* SpatialBeamFEM.apply_nonlinear
apply_nonlinear(p) ==
  /\ calls < MaxCalls
  /\ Assemble(p, 0)
  /\ resids' = Strict(MatVec(mtx', disp_aug, size, size), LAMBDA prod :
                 Eager([i \in 0..(size - 1) |-> RSub(prod[i], rhs'[i])]))
  /\ call' = [op |-> "apply_nonlinear", err |-> "none"]
  /\ calls' = calls + 1
  /\ UNCHANGED <<part, n, cons, Inputs, lup, disp_aug, dumat, drmat, disp>>

\* SpatialBeamFEM.linearize.  complex_step_jacobian calls apply_nonlinear on
\* copies of the vectors, once per entry of fd_params, so self.mtx and
\* self.rhs end up assembled from params (real part) and resids is not
\* touched.  lu_factor refuses a matrix with non-finite entries (ValueError,
\* self.lup keeps what it was) and only warns about a singular one.
linearize(p) ==
  /\ calls < MaxCalls
  /\ Assemble(p, IF MHasNaN(mtx') THEN 0 ELSE 1)
  /\ IF MHasNaN(mtx')
     THEN /\ lup' = lup
          /\ call' = [op |-> "linearize", err |-> "ValueError"]
     ELSE /\ lup' = [set |-> TRUE, of |-> mtx']
          /\ call' = [op |-> "linearize", err |-> "none", jac |-> FEMJacobian]
  /\ calls' = calls + 1
  /\ UNCHANGED <<part, n, cons, Inputs, disp_aug, resids, dumat, drmat, disp>>

\* The right-hand sides the framework has put into rhs_vec, one for each
\* variable of interest.
UnitVec(len, at) == Eager([i \in 0..(len - 1) |-> IF i = at THEN One ELSE Zero])

LinRhs(len) == Eager([voi \in Vois |-> UnitVec(len, IF voi = "None" THEN 8 ELSE 1)])

\* scipy.linalg.lu_solve((lu, piv), b, trans) with the factors of the matrix
\* of: the solution of of x = b (trans = 0) or of of^T x = b (trans = 1).
\* With the factors of a singular matrix it divides by a zero pivot and the
\* result is not finite.
lu_solve(of, b, trans) ==
  Strict(Solve(IF trans = 0 THEN of ELSE Transpose(of, VLen(b), VLen(b)), b),
         LAMBDA sol : IF sol.ok THEN sol.x ELSE NaNVec(VLen(b)))

\* vecs with the entries of the variables of interest in vois taken from new.
Written(vecs, new, vois) ==
  Eager([voi \in Vois |-> IF voi \in vois THEN new[voi] ELSE vecs[voi]])

\* A solve_linear that factorizes the matrix buffer itself at every call.
solve_linear_refactorizing(mode, vois, b) ==
  /\ calls < MaxCalls
  /\ lup' = IF MHasNaN(mtx) THEN lup ELSE [set |-> TRUE, of |-> mtx]
  /\ IF ~lup'.set
     THEN /\ call' = [op |-> "solve_linear", err |-> "AttributeError"]
          /\ UNCHANGED <<dumat, drmat>>
     ELSE \E sols \in {Eager([voi \in vois |->
                          lu_solve(lup'.of, Eager([i \in 0..(size - 1) |-> RNeg(b[voi][i])]),
                                   IF mode = "fwd" THEN 0 ELSE 1)])} :
             /\ call' = [op |-> "solve_linear", err |-> "none", mode |-> mode, vois |-> vois]
             /\ IF mode = "fwd"
                THEN drmat' = Written(drmat, b, vois) /\ dumat' = Written(dumat, sols, vois)
                ELSE dumat' = Written(dumat, b, vois) /\ drmat' = Written(drmat, sols, vois)
  /\ calls' = calls + 1
  /\ UNCHANGED <<part, n, cons, Inputs, mtx, rhs, disp_aug, resids, disp, asm>>

\* SpatialBeamFEM.solve_linear(dumat, drmat, vois, mode): for every variable
\* of interest in vois, lu_solve with self.lup on minus the right-hand side b
\* found in rhs_vec (self.drmat in mode "fwd", else self.dumat), transposed
\* unless mode is "fwd"; the result goes to sol_vec (self.dumat in mode
\* "fwd", else self.drmat).  Without a self.lup the attribute lookup fails.
solve_linear(mode, vois, b) ==
  /\ calls < MaxCalls
  /\ IF ~lup.set
     THEN /\ call' = [op |-> "solve_linear", err |-> "AttributeError"]
          /\ UNCHANGED <<dumat, drmat>>
     ELSE \E sols \in {Eager([voi \in vois |->
                          lu_solve(lup.of, Eager([i \in 0..(size - 1) |-> RNeg(b[voi][i])]),
                                   IF mode = "fwd" THEN 0 ELSE 1)])} :
             /\ call' = [op |-> "solve_linear", err |-> "none", mode |-> mode, vois |-> vois]
             /\ IF mode = "fwd"
                THEN drmat' = Written(drmat, b, vois) /\ dumat' = Written(dumat, sols, vois)
                ELSE dumat' = Written(dumat, b, vois) /\ drmat' = Written(drmat, sols, vois)
  /\ calls' = calls + 1
  /\ UNCHANGED <<part, n, cons, Inputs, mtx, rhs, lup, disp_aug, resids, disp, asm>>

\* SpatialBeamDisp.solve_nonlinear on the disp_aug of the FEM component
Disp_solve_nonlinear ==
  /\ calls < MaxCalls
  /\ disp' = Eager([i \in 0..(n - 1) |-> Eager([k \in 0..5 |-> disp_aug[6 * i + k]])])
  /\ call' = [op |-> "disp", err |-> "none"]
  /\ calls' = calls + 1
  /\ UNCHANGED <<part, n, cons, Inputs, mtx, rhs, lup, disp_aug, resids, dumat, drmat, asm>>

Next ==
  \/ \E p \in Inputs : solve_nonlinear(p)
  \/ \E p \in Inputs : apply_nonlinear(p)
  \/ \E p \in Inputs : linearize(p)
  \/ \E mode \in {"fwd", "rev"}, vois \in {{"None"}, Vois} :
       solve_linear(mode, vois, LinRhs(size))
  \/ Disp_solve_nonlinear

Spec == Init /\ [][Next]_vars

\* ----------------------------------------------- the other components
\* What each component declares (add_param, add_output, add_state).
DeclaredParams(comp) ==
  CASE comp = "Tube" -> {"r", "t"}
    [] comp = "FEM" -> {"A", "Iy", "Iz", "J", "mesh", "loads"}
    [] comp = "Disp" -> {"disp_aug"}
    [] comp = "Energy" -> {"disp", "loads"}
    [] comp = "Weight" -> {"A", "mesh"}
    [] comp = "VonMisesTube" -> {"mesh", "r", "disp"}
    [] comp = "FailureKS" -> {"vonmises"}

DeclaredOutputs(comp) ==
  CASE comp = "Tube" -> {"A", "Iy", "Iz", "J"}
    [] comp = "FEM" -> {}
    [] comp = "Disp" -> {"disp"}
    [] comp = "Energy" -> {"energy"}
    [] comp = "Weight" -> {"weight"}
    [] comp = "VonMisesTube" -> {"vonmises"}
    [] comp = "FailureKS" -> {"failure"}

DeclaredStates(comp) == IF comp = "FEM" THEN {"disp_aug"} ELSE {}

\* The (output, input) pairs of a component: every output and state with
\* respect to every param and state.  These are the keys of the dictionary
\* alloc_jacobian returns.
DeclaredPairs(comp) ==
  (DeclaredOutputs(comp) \cup DeclaredStates(comp))
    \X (DeclaredParams(comp) \cup DeclaredStates(comp))

\* The components that set fd_options['force_fd']: the framework
\* differentiates them itself and does not call their linearize.
ForceFD == {"Weight", "VonMisesTube", "FailureKS"}

\* The record of a linearize call: written are the keys the method assigns
\* to, jac the keys of the Jacobian it returns (none when it raises).
Linearized(comp, written, values) ==
  [comp |-> comp, op |-> "linearize", written |-> written,
   err |-> IF written \subseteq DeclaredPairs(comp) THEN "none" ELSE "KeyError",
   jac |-> IF written \subseteq DeclaredPairs(comp) THEN DeclaredPairs(comp) ELSE {},
   values |-> values]

\* ------------------------------------------- SpatialBeamTube.solve_nonlinear
\* numpy arithmetic on the arrays r and t, element by element.  The outputs
\* are multiples of pi and the model keeps them in units of pi.

\* r1 = params['r'] - 0.5 * params['t'];  r2 = params['r'] + 0.5 * params['t']
Tube_r1(r, t) ==
  Strict2(r, t, LAMBDA u, v : Eager([e \in DOMAIN u |-> RSub(u[e], RMul(<<1, 2>>, v[e]))]))

Tube_r2(r, t) ==
  Strict2(r, t, LAMBDA u, v : Eager([e \in DOMAIN u |-> RAdd(u[e], RMul(<<1, 2>>, v[e]))]))

\* x**2 and x**4 of an array
Sq(x) == Strict(x, LAMBDA u : Eager([e \in DOMAIN u |-> RMul(u[e], u[e])]))

Fourth(x) == Sq(Sq(x))

\* (a - b) / d of two arrays and a number
DiffOver(a, b, d) ==
  Strict2(a, b, LAMBDA u, v : Eager([e \in DOMAIN u |-> RDiv(RSub(u[e], v[e]), d)]))

\* unknowns['A'] = pi * (r2**2 - r1**2)
Tube_A(r, t) == DiffOver(Sq(Tube_r2(r, t)), Sq(Tube_r1(r, t)), One)

\* unknowns['Iy'] = pi * (r2**4 - r1**4) / 4.
Tube_Iy(r, t) == DiffOver(Fourth(Tube_r2(r, t)), Fourth(Tube_r1(r, t)), R(4))

\* unknowns['Iz'] = pi * (r2**4 - r1**4) / 4.
Tube_Iz(r, t) == DiffOver(Fourth(Tube_r2(r, t)), Fourth(Tube_r1(r, t)), R(4))

\* A polar moment equal to the bending moment.
Tube_JQuarter(r, t) == DiffOver(Fourth(Tube_r2(r, t)), Fourth(Tube_r1(r, t)), R(4))

\* unknowns['J'] = pi * (r2**4 - r1**4) / 2.
Tube_J(r, t) == DiffOver(Fourth(Tube_r2(r, t)), Fourth(Tube_r1(r, t)), R(2))

\* SpatialBeamTube.solve_nonlinear
Tube_solve_nonlinear(r, t) ==
  part' = [comp |-> "Tube", op |-> "solve_nonlinear", r |-> r, t |-> t,
           A |-> Tube_A(r, t), Iy |-> Tube_Iy(r, t),
           Iz |-> Tube_Iz(r, t), J |-> Tube_J(r, t)]

\* SpatialBeamTube.linearize; the derivatives are multiples of pi and the
\* model keeps the factor of pi (r1 = r - t/2, r2 = r + t/2).
Tube_linearize(r, t) ==
  LET r1(e) == RSub(r[e], RMul(<<1, 2>>, t[e]))
      r2(e) == RAdd(r[e], RMul(<<1, 2>>, t[e]))
      Cube(x) == RMul(RMul(x, x), x)
      dr(k, e) == RMul(R(k), RSub(r2(e), r1(e)))
      dt(k, e) == RMul(R(k), RAdd(RMul(r2(e), <<1, 2>>), RMul(r1(e), <<1, 2>>)))
      d3r(k, e) == RMul(R(k), RSub(Cube(r2(e)), Cube(r1(e))))
      d3t(k, e) == RMul(R(k), RAdd(RMul(Cube(r2(e)), <<1, 2>>), RMul(Cube(r1(e)), <<1, 2>>)))
      Diag(f(_)) == Eager([e \in 0..(n - 2) |-> f(e)])
  IN part' = Linearized("Tube", {"A", "Iy", "Iz", "J"} \X {"r", "t"},
       [A_r |-> Diag(LAMBDA e : dr(2, e)), A_t |-> Diag(LAMBDA e : dt(2, e)),
        Iy_r |-> Diag(LAMBDA e : d3r(1, e)), Iy_t |-> Diag(LAMBDA e : d3t(1, e)),
        Iz_r |-> Diag(LAMBDA e : d3r(1, e)), Iz_t |-> Diag(LAMBDA e : d3t(1, e)),
        J_r |-> Diag(LAMBDA e : d3r(2, e)), J_t |-> Diag(LAMBDA e : d3t(2, e))])

\* SpatialBeamDisp.linearize: ones on the diagonal of the first 6n columns.
Disp_linearize ==
  part' = Linearized("Disp", {<<"disp", "disp_aug">>},
            [disp_disp_aug |-> Eager([i \in 0..(6 * n - 1) |-> One])])

\* SpatialBeamEnergy.linearize
Energy_linearize(dsp, loads) ==
  part' = Linearized("Energy", {<<"energy", "disp">>, <<"energy", "loads">>},
            [energy_disp |-> Eager([i \in 0..(6 * n - 1) |-> loads[i \div 6][i % 6]]),
             energy_loads |-> Eager([i \in 0..(6 * n - 1) |-> dsp[i \div 6][i % 6]])])

\* SpatialBeamWeight.linearize: its one assignment goes to the key
\* ('weight', 't').
Weight_linearize ==
  part' = Linearized("Weight", {<<"weight", "t">>}, <<>>)

\* The Jacobian the framework computes by complex step for a component with
\* force_fd: every declared pair.
fd_jacobian(comp) ==
  part' = [comp |-> comp, op |-> "fd_jacobian", written |-> DeclaredPairs(comp),
           err |-> "none", jac |-> DeclaredPairs(comp), values |-> <<>>]

\* ------------------------------------------------ SpatialBeamFailureKS
\* Stresses, sigma and rho are integers here; exp and log are computed in
\* fixed point with Scale units to 1 and rounded down, so that, as in
\* floating point, exp(0) is exactly 1, exp underflows to 0 and log(1) is 0.
Scale == 10000

\* The largest stress sample and the largest sharpness rho.
MaxStress == 2

MaxRho == 4

RECURSIVE ExpFix(_)
\* exp(-k) for an integer k >= 0 (1/e = 10000/27183).
ExpFix(k) == IF k = 0 THEN Scale ELSE (ExpFix(k - 1) * 10000) \div 27183

\* log(y) for y >= 1: 2 atanh(z) = 2 (z + z^3/3 + ... + z^9/9) with
\* z = (y - 1) / (y + 1).
LogFix(y) ==
  LET z == ((y - Scale) * Scale) \div (y + Scale)
      z2 == (z * z) \div Scale
      z3 == (z * z2) \div Scale
      z5 == (z3 * z2) \div Scale
      z7 == (z5 * z2) \div Scale
      z9 == (z7 * z2) \div Scale
  IN 2 * (z + z3 \div 3 + z5 \div 5 + z7 \div 7 + z9 \div 9)

\* numpy.max and numpy.sum over the samples of a table of integers.
RECURSIVE MaxOver(_, _)
MaxOver(f, k) ==
  IF k = 0 THEN f[0]
  ELSE IF f[k] > MaxOver(f, k - 1) THEN f[k] ELSE MaxOver(f, k - 1)

RECURSIVE SumOver(_, _)
SumOver(f, k) == IF k = 0 THEN f[0] ELSE f[k] + SumOver(f, k - 1)

\* fmax = numpy.max(vonmises - sigma)
KSMax(vonmises, sigma) ==
  MaxOver([j \in DOMAIN vonmises |-> vonmises[j] - sigma], VLen(vonmises) - 1)

\* nlog(nsum(nexp(rho * (vonmises - sigma - fmax)))), in Scale units
KSLogSum(vonmises, sigma, rho) ==
  LogFix(SumOver([j \in DOMAIN vonmises |->
                    ExpFix(rho * (KSMax(vonmises, sigma) - (vonmises[j] - sigma)))],
                 VLen(vonmises) - 1))

\* The aggregate without the shift by fmax.
KSUnshifted(vonmises, sigma, rho) ==
  ((Scale \div rho) * KSLogSum(vonmises, sigma, rho)) \div Scale

\* unknowns['failure'] = fmax + 1 / rho * nlog(...), in Scale units
KSFailure(vonmises, sigma, rho) ==
  KSMax(vonmises, sigma) * Scale
    + ((Scale \div rho) * KSLogSum(vonmises, sigma, rho)) \div Scale

\* SpatialBeamFailureKS.solve_nonlinear of an instance built with (sigma, rho)
FailureKS_solve_nonlinear(vonmises, sigma, rho) ==
  part' = [comp |-> "FailureKS", op |-> "solve_nonlinear", vonmises |-> vonmises,
           sigma |-> sigma, rho |-> rho, failure |-> KSFailure(vonmises, sigma, rho)]

\* ------------------------------------- the components, called one by one
fem == <<n, cons, Inputs, mtx, rhs, lup, disp_aug, resids, dumat, drmat, disp,
         asm, call, calls>>

InitParts ==
  /\ n \in 2..MaxNodes
  /\ cons = <<>>
  /\ Inputs = {}
  /\ mtx = MZero(size, size)
  /\ rhs = VZero(size)
  /\ lup = [set |-> FALSE]
  /\ disp_aug = VZero(size)
  /\ resids = VZero(size)
  /\ dumat = Eager([voi \in Vois |-> VZero(size)])
  /\ drmat = Eager([voi \in Vois |-> VZero(size)])
  /\ disp = Eager([i \in 0..(n - 1) |-> VZero(6)])
  /\ asm = [p |-> <<>>, nfact |-> 0, mtx |-> <<>>, rhs |-> <<>>]
  /\ call = [op |-> "init", err |-> "none"]
  /\ calls = 0
  /\ part = NoCall

\* A component instance of this specification is called once: it keeps
\* nothing from one call to the next.
NextParts ==
  \/ \E r \in [0..(n - 2) -> {R(1), R(2)}], t \in [0..(n - 2) -> {One, <<1, 2>>}] :
       part = NoCall /\ Tube_linearize(r, t) /\ UNCHANGED fem
  \/ part = NoCall /\ Disp_linearize /\ UNCHANGED fem
  \/ \E d \in {"loaded", "unloaded"}, l \in {"loaded", "unloaded"} :
       part = NoCall /\ Energy_linearize(LoadsOf(n, d), LoadsOf(n, l)) /\ UNCHANGED fem
  \/ part = NoCall /\ Weight_linearize /\ UNCHANGED fem
  \/ \E comp \in ForceFD : part = NoCall /\ fd_jacobian(comp) /\ UNCHANGED fem
  \/ \E v \in [0..(2 * (n - 1) - 1) -> 0..MaxStress], sigma \in 0..MaxStress,
        rho \in 1..MaxRho :
       part = NoCall /\ FailureKS_solve_nonlinear(v, sigma, rho) /\ UNCHANGED fem
  \/ \E r \in [0..(n - 2) -> {R(1), R(2)}],
        t \in [0..(n - 2) -> {Zero, <<1, 2>>, One, R(2)}] :
       part = NoCall /\ Tube_solve_nonlinear(r, t) /\ UNCHANGED fem

SpecParts == InitParts /\ [][NextParts]_vars

\* ------------------------------------------------------------- properties

\* An assembly has run on this instance.
Assembled == asm.p # <<>>

\* C1: every solve_linear call that finds a factorization uses one that was
\* computed from the matrix of the most recent assembly (the cached
\* factorization is never stale).
C1_FactorizationCurrent ==
  (call.op = "solve_linear" /\ lup.set) => lup.of = mtx

\* C2: the matrix of one set of assembly inputs is factorized once, and the
\* forward solve of solve_nonlinear leaves and uses the cached factorization
\* that later solve_linear calls use.
C2_SingleFactorization ==
  /\ asm.nfact <= 1
  /\ (call.op = "solve_nonlinear" /\ call.err = "none") => (lup.set /\ lup.of = mtx)

\* C3: with a constraint list that leaves rigid-body modes (here the empty
\* list), solve_nonlinear ends in the singular-system error and returns no
\* numeric result.
C3_SingularSystemReported ==
  (call.op = "solve_nonlinear" /\ Len(cons) = 0) => call.err = "LinAlgError"

\* C4: no assembled matrix holds a value derived from a division by a zero
\* norm (degenerate geometry is rejected before the frame is normalized).
C4_NoDegenerateMatrix == ~MHasNaN(mtx)

\* C5: after every assembly the augmented matrix is symmetric.
C5_Symmetric ==
  Assembled => \A i \in DOMAIN mtx : \A j \in DOMAIN mtx : REq(mtx[i][j], mtx[j][i])

\* The rows and columns of constraint position ind and DOF j.
ConsRow(ind, j) == 6 * n + 6 * ind + j

ConsCol(ind, j) == 6 * cons[ind + 1] + j

\* C6: after assembly every constraint position couples its row and column
\* to the DOF of its node by a symmetric 1, every other entry of the rows
\* and columns from 6n on is 0, and so is the right-hand side there: row
\* 6n+6ind+j of mtx x = rhs reads x[6 cons[ind] + j] = 0.
C6_ConstraintRows ==
  Assembled =>
    /\ \A ind \in 0..(Len(cons) - 1) : \A j \in 0..5 :
         /\ mtx[ConsRow(ind, j)][ConsCol(ind, j)] = One
         /\ mtx[ConsCol(ind, j)][ConsRow(ind, j)] = One
    /\ \A r \in (6 * n)..(size - 1) : \A c \in 0..(size - 1) :
         (~\E ind \in 0..(Len(cons) - 1), j \in 0..5 :
             r = ConsRow(ind, j) /\ c = ConsCol(ind, j))
           => (mtx[r][c] = Zero /\ mtx[c][r] = Zero)
    /\ \A r \in (6 * n)..(size - 1) : rhs[r] = Zero

\* C6 witness: a beam with two constrained nodes has been assembled and the
\* second constraint position is coupled to node 0.
C6_Witness ==
  /\ Assembled /\ Len(cons) = 2
  /\ mtx[ConsRow(1, 0)][ConsCol(1, 0)] = One
  /\ mtx[ConsCol(1, 0)][ConsRow(1, 0)] = One

\* C7: after every assembly the buffers hold what a fresh instance holds
\* after assembling the same inputs once.
C7_FreshAssembly == Assembled => (mtx = asm.mtx /\ rhs = asm.rhs)

\* C7 witness: a second call assembled inputs that differ from those of an
\* earlier linearize, and the buffers hold the fresh result.
C7_Witness ==
  /\ calls >= 2 /\ call.op = "apply_nonlinear" /\ lup.set /\ lup.of # mtx
  /\ mtx = asm.mtx /\ rhs = asm.rhs

\* C8: with zero loads and a constraint set that removes the rigid-body
\* modes the solved augmented vector is zero.
C8_ZeroLoadsZeroDisp ==
  (call.op = "solve_nonlinear" /\ asm.p[2] = "unloaded" /\ Len(cons) > 0)
    => \A i \in DOMAIN disp_aug : REq(disp_aug[i], Zero)

\* C9: every key a linearize assigns to is a pair of an output and an input
\* its component declares, and the Jacobian it returns has every declared
\* pair.
C9_JacobianKeys ==
  part.op = "linearize" =>
    (part.written \subseteq DeclaredPairs(part.comp) /\ part.jac = DeclaredPairs(part.comp))

\* C10: the KS value is at least the largest margin, exceeds it by at most
\* log(number of samples) / rho, and does not grow when rho grows.
C10_KSBound ==
  (part.comp = "FailureKS" /\ part.op = "solve_nonlinear") =>
    /\ KSMax(part.vonmises, part.sigma) * Scale <= part.failure
    /\ part.failure - KSMax(part.vonmises, part.sigma) * Scale
         <= ((Scale \div part.rho) * LogFix(VLen(part.vonmises) * Scale)) \div Scale
    /\ \A rho \in (part.rho + 1)..MaxRho :
         KSFailure(part.vonmises, part.sigma, rho) <= part.failure

\* C10 witness: samples with different margins, the largest of them positive,
\* aggregated at rho > 1 to a value strictly above the largest margin.
C10_Witness ==
  /\ part.comp = "FailureKS" /\ part.op = "solve_nonlinear" /\ part.rho > 1
  /\ \E i, j \in DOMAIN part.vonmises : part.vonmises[i] < part.vonmises[j]
  /\ KSMax(part.vonmises, part.sigma) > 0
  /\ part.failure > KSMax(part.vonmises, part.sigma) * Scale

\* A one-element array holding x.
Single(x) == Eager([e \in {0} |-> x])

\* 0 < a for a finite a.
RPos(a) == IsFinite(a) /\ a[1] > 0

\* C11: for every element with 0 < t < r the tube outputs A, Iy, Iz and J
\* are strictly positive, Iy = Iz and J = 2 Iy, and each of them is what the
\* r and t of that element alone give.
C11_TubeOutputs ==
  (part.comp = "Tube" /\ part.op = "solve_nonlinear") =>
    \A e \in DOMAIN part.r :
      (RPos(part.t[e]) /\ RPos(RSub(part.r[e], part.t[e]))) =>
        /\ RPos(part.A[e]) /\ RPos(part.Iy[e]) /\ RPos(part.Iz[e]) /\ RPos(part.J[e])
        /\ REq(part.Iy[e], part.Iz[e])
        /\ REq(part.J[e], RMul(R(2), part.Iy[e]))
        /\ part.A[e] = Tube_A(Single(part.r[e]), Single(part.t[e]))[0]
        /\ part.Iy[e] = Tube_Iy(Single(part.r[e]), Single(part.t[e]))[0]
        /\ part.Iz[e] = Tube_Iz(Single(part.r[e]), Single(part.t[e]))[0]
        /\ part.J[e] = Tube_J(Single(part.r[e]), Single(part.t[e]))[0]

\* C11 witness: a beam of two elements with different radii and different
\* thicknesses, both with 0 < t < r, and different areas.
C11_Witness ==
  /\ part.comp = "Tube" /\ part.op = "solve_nonlinear" /\ n = 3
  /\ \A e \in DOMAIN part.r : RPos(part.t[e]) /\ RPos(RSub(part.r[e], part.t[e]))
  /\ part.r[0] # part.r[1] /\ part.t[0] # part.t[1] /\ part.A[0] # part.A[1]

\* Entry (r, c) of the 12 x 12 block res of element ielem placed at rows and
\* columns 6 ielem .. 6 ielem + 11 of a matrix that is zero elsewhere.
Placed(res, ielem, r, c) ==
  IF r \in (6 * ielem)..(6 * ielem + 11) /\ c \in (6 * ielem)..(6 * ielem + 11)
  THEN res[r - 6 * ielem][c - 6 * ielem]
  ELSE Zero

\* C12: after assembly the top-left 6n x 6n block of mtx is the sum over the
\* elements of their rotated blocks placed at rows and columns 6i..6i+11;
\* the block of nodes a, b with |a - b| > 1 is zero, and the diagonal block
\* of an interior node i is the lower-right quadrant of element i-1 plus the
\* upper-left quadrant of element i.
C12_ScatterSum ==
  Assembled =>
    Strict(Eager([i \in 0..(n - 2) |-> ElemBlock(i, n, Params(n, asm.p))]),
           LAMBDA blocks :
      /\ \A r \in 0..(6 * n - 1) : \A c \in 0..(6 * n - 1) :
           mtx[r][c] = SumRange(Eager([i \in 0..(n - 2) |-> Placed(blocks[i], i, r, c)]),
                                0, n - 2)
      /\ \A a \in 0..(n - 1) : \A b \in 0..(n - 1) :
           (a - b > 1 \/ b - a > 1) =>
              \A j \in 0..5 : \A k \in 0..5 : mtx[6 * a + j][6 * b + k] = Zero
      /\ \A i \in 1..(n - 2) : \A j \in 0..5 : \A k \in 0..5 :
           mtx[6 * i + j][6 * i + k] = RAdd(blocks[i - 1][6 + j][6 + k], blocks[i][j][k]))

\* C12 witness: a three-node beam has been assembled; its interior node
\* carries the finite, non-zero contributions of both elements, and the end
\* nodes are not coupled.
C12_Witness ==
  /\ Assembled /\ n = 3
  /\ IsFinite(mtx[6][6]) /\ mtx[0][0] # Zero /\ mtx[12][12] # Zero
  /\ mtx[6][6] = RAdd(mtx[0][0], mtx[12][12])
  /\ mtx[0][12] = Zero

\* The matrix m has an inverse: elimination finds a pivot in every column.
Regular(m) == Solve(m, VZero(VLen(m))).ok

\* -v of a vector v.
VNeg(v) == Eager([i \in DOMAIN v |-> RNeg(v[i])])

\* C13: a solve_linear call leaves the factorization, the matrix buffer and
\* the load-vector buffer as they are and computes no factorization; with a
\* cached factorization of a regular matrix, for every variable of interest
\* in vois the vector it writes solves the un-transposed system in mode
\* 'fwd' and the transposed system in every other mode, with minus the
\* right-hand side; and a call that repeats the mode and the right-hand side
\* of the call before it writes the same solution.
C13_SolveLinearReuse ==
  /\ []((call.op = "solve_linear" /\ call.err = "none" /\ Regular(lup.of)) =>
          \A voi \in call.vois :
             IF call.mode = "fwd"
             THEN MatVec(lup.of, dumat[voi], size, size) = VNeg(drmat[voi])
             ELSE MatVec(Transpose(lup.of, size, size), drmat[voi], size, size)
                    = VNeg(dumat[voi]))
  /\ [][(call'.op = "solve_linear" /\ calls' = calls + 1) =>
          /\ lup' = lup /\ mtx' = mtx /\ rhs' = rhs /\ asm' = asm
          /\ (call.op = "solve_linear" /\ call.err = "none" /\ call'.err = "none"
                /\ call'.mode = call.mode) =>
               \A voi \in call.vois \cap call'.vois :
                  IF call.mode = "fwd"
                  THEN drmat'[voi] = drmat[voi] => dumat'[voi] = dumat[voi]
                  ELSE dumat'[voi] = dumat[voi] => drmat'[voi] = drmat[voi]]_vars

\* C13 witness: after one linearize of a clamped beam, a 'fwd' call for both
\* variables of interest and then a 'rev' call for the default one have used
\* the same factorization: the second variable still holds its finite,
\* non-zero forward solution and the default one its transposed solution.
C13_Witness ==
  /\ calls = 3 /\ call.op = "solve_linear" /\ call.err = "none"
  /\ call.mode = "rev" /\ call.vois = {"None"}
  /\ Len(cons) > 0 /\ lup.set /\ asm.nfact = 1
  /\ dumat["None"] = LinRhs(size)["None"] /\ drmat["voi1"] = LinRhs(size)["voi1"]
  /\ \A i \in 0..(size - 1) : IsFinite(dumat["voi1"][i]) /\ IsFinite(drmat["None"][i])
  /\ dumat["voi1"] # VZero(size) /\ drmat["None"] # VZero(size)
  /\ MatVec(lup.of, dumat["voi1"], size, size) = VNeg(drmat["voi1"])

====
